---- MODULE Spec2Model ----
(***************************************************************************)
(* Model of src/main.py (Duplicate-Remover): validate the directory        *)
(* argument, enumerate files, classify them into invalid (zero-byte) files *)
(* and duplicate groups (same MD5 digest, sorted by modification time),    *)
(* remove all but the first member of every group and, on request, every   *)
(* invalid file.                                                           *)
(*                                                                         *)
(* The file system is a tree of nodes.  Node 0 is the directory given on   *)
(* the command line; a node n > 0 is an entry (file, directory or special  *)
(* file) whose path is identified with n.  os.scandir lists the entries of *)
(* a directory in ascending node order (one of the orders the platform may *)
(* produce).                                                               *)
(***************************************************************************)
EXTENDS Integers, Sequences, FiniteSets, TLC

\* ------------------------------------------------------------------ bounds
MaxNodes == 4      \* entries below the scanned directory
MaxByte  == 1      \* non-empty file contents are the one-byte strings <<1>>..<<MaxByte>>
MaxMtime == 2      \* modification times are 1..MaxMtime

Nodes    == 1..MaxNodes
Contents == {<< >>} \cup { <<b>> : b \in 1..MaxByte }
Mtimes   == 1..MaxMtime
Kinds    == {"file", "dir", "other"}
Replies  == {"y", "n", "x"}     \* "x" stands for any reply other than 'y' and 'n'

VARIABLES
    rootKind,                 \* what args.directory names: "dir", "file", "missing", "empty" ('')
    kind, parent,             \* the tree: kind of every entry, directory holding it (0 = root)
    content, mtime,           \* bytes and st_mtime of every entry
    disk,                     \* entries that currently exist
    recursive_flag, prompt_flag, remove_invalid_file_flag,   \* args (main.py 216-218)
    pc,                       \* position of __main__
    file_entries, invalid_files, duplicate_files,            \* main.py 223-224
    g, j,                     \* remove_duplicates_files: group index, candidate index
    k,                        \* remove_invalid_files: index in _invalid_files
    lastReply,                \* last value returned by input()
    stdout,                   \* messages printed (progress bar and prompts left out)
    exit_status,              \* -1 while running
    error,                    \* the uncaught exception that ended the run, "" if none
    run,                      \* 1: first invocation, 2: the immediate re-run
    disk0,                    \* disk when the current invocation started
    declined,                 \* some confirmation of the current invocation was answered 'n'
    prevDeclined,             \* value of declined when the first invocation ended
    removedBy                 \* history: entry -> the pass whose os.remove deleted it

vars == << rootKind, kind, parent, content, mtime, disk,
           recursive_flag, prompt_flag, remove_invalid_file_flag,
           pc, file_entries, invalid_files, duplicate_files, g, j, k,
           lastReply, stdout, exit_status, error, run, disk0, declined,
           prevDeclined, removedBy >>

\* ------------------------------------------------------- sequence helpers
Range(s) == { s[i] : i \in DOMAIN s }

RECURSIVE SetToSeq(_)
\* the elements of a set of entries in ascending order
SetToSeq(S) ==
    IF S = {} THEN << >>
    ELSE LET m == CHOOSE x \in S : \A y \in S : x <= y
         IN  <<m>> \o SetToSeq(S \ {m})

\* --------------------------------------------------------- file metadata
\* entry.stat()[FILE_SIZE_INDEX]: the number of bytes of the entry
st_size(e) == Len(content[e])

\* entry.stat()[FILE_MTIME_INDEX]
st_mtime(e) == mtime[e]

\* valid_file: a file is valid when its size is positive
valid_file(file_entry) == st_size(file_entry) > 0

RECURSIVE md5(_)
\* hashlib.md5(bytes).hexdigest(), taken as collision-free: a positional
\* fingerprint of the bytes, different for different byte strings
md5(bytes) ==
    IF bytes = << >> THEN 1
    ELSE md5(SubSeq(bytes, 1, Len(bytes) - 1)) * 256 + bytes[Len(bytes)]

\* get_hash: the digest of the whole content of the file
get_hash(e) == md5(content[e])

is_file(e) == kind[e] = "file"
is_dir(e)  == kind[e] = "dir"

\* os.scandir(_directory): the existing entries of directory d
scandir(d) == SetToSeq({ n \in disk : parent[n] = d })

\* os.path.isdir / os.path.exists of the command-line argument
isdir(d)  == d = "dir"
exists(d) == d \in {"dir", "file"}

\* ------------------------------------------------------- valid_arguments
\* the error message printed, or "ok" when valid_arguments returns True
valid_arguments(_directory) ==
    IF _directory = "empty" THEN "EMPTY_DIRECTORY_MSG"
    ELSE IF ~isdir(_directory) THEN "INVALID_DIRECTORY_MSG"
    ELSE IF ~exists(_directory) THEN "ERROR_PATH_NOT_FOUND_MSG"
    ELSE "ok"

\* ------------------------------------------------------------- get_files
\* mutant: descends into directories whatever the recursive flag says
entry_action_always_recurse(entry, _recursive) ==
    IF is_file(entry) THEN "append"
    ELSE IF is_dir(entry) THEN "recurse"
    ELSE "skip"

\* the branch get_files takes for one entry of the listing (main.py 120-123)
entry_action(entry, _recursive) ==
    IF is_file(entry) THEN "append"
    ELSE IF is_dir(entry) /\ _recursive THEN "recurse"
    ELSE "skip"

RECURSIVE get_files(_, _)
RECURSIVE get_files_loop(_, _, _, _)
\* the for loop of get_files over the listing dir_entry, from index i on
get_files_loop(dir_entry, i, _recursive, _file_entries) ==
    IF i > Len(dir_entry) THEN _file_entries
    ELSE LET entry == dir_entry[i]
             act   == entry_action(entry, _recursive)
         IN  IF act = "append"
               THEN get_files_loop(dir_entry, i + 1, _recursive,
                                   Append(_file_entries, entry))
             ELSE IF act = "recurse"
               THEN get_files_loop(dir_entry, i + 1, _recursive,
                                   _file_entries \o get_files(entry, _recursive))
             ELSE get_files_loop(dir_entry, i + 1, _recursive, _file_entries)

get_files(_directory, _recursive) ==
    get_files_loop(scandir(_directory), 1, _recursive, << >>)

\* -------------------------------------------------------- get_duplicates
\* mutant: newest first
sort_key_descending(entry) == 0 - st_mtime(entry)

\* key of _file_entries.sort (main.py 135)
sort_key(entry) == st_mtime(entry)

\* one step of the stable sort: entry goes behind every element whose key is
\* not greater than its own
sort_insert(sorted, entry) ==
    LET p == Cardinality({ i \in DOMAIN sorted : sort_key(sorted[i]) <= sort_key(entry) })
    IN  SubSeq(sorted, 1, p) \o <<entry>> \o SubSeq(sorted, p + 1, Len(sorted))

RECURSIVE list_sort(_)
\* list.sort(key=...): stable, ascending
list_sort(entries) ==
    IF entries = << >> THEN << >>
    ELSE sort_insert(list_sort(SubSeq(entries, 1, Len(entries) - 1)),
                     entries[Len(entries)])

\* hash_dict[get_hash(entry.path)].append(entry.path) on a dict kept in
\* insertion order: a sequence of [key, files]
hash_dict_append(hash_dict, entry) ==
    LET h    == get_hash(entry)
        hits == { i \in DOMAIN hash_dict : hash_dict[i].key = h }
    IN  IF hits = {} THEN Append(hash_dict, [key |-> h, files |-> <<entry>>])
        ELSE LET i == CHOOSE x \in hits : TRUE
             IN  [hash_dict EXCEPT ![i].files = Append(@, entry)]

RECURSIVE build_hash_dict(_)
build_hash_dict(entries) ==
    IF entries = << >> THEN << >>
    ELSE hash_dict_append(build_hash_dict(SubSeq(entries, 1, Len(entries) - 1)),
                          entries[Len(entries)])

\* [entry.path for entry in _file_entries if not valid_file(entry)]
select_invalid(sorted) ==
    LET Invalid(e) == ~valid_file(e) IN SelectSeq(sorted, Invalid)

\* [files for files in hash_dict.values() if len(files) > 1]
select_duplicates(hash_dict) ==
    LET Dup(item) == Len(item.files) > 1
        kept == SelectSeq(hash_dict, Dup)
    IN  [ i \in DOMAIN kept |-> kept[i].files ]

\* get_duplicates: the list as sorted in place, _invalid_files, _duplicate_files
get_duplicates(_file_entries) ==
    LET sorted == list_sort(_file_entries)
    IN  [ sorted     |-> sorted,
          invalid    |-> select_invalid(sorted),
          duplicates |-> select_duplicates(build_hash_dict(sorted)) ]

\* ------------------------------------------------------------- os.remove
\* what os.remove(path) does: "removed", or the exception it raises.  A file
\* that is gone raises FileNotFoundError; denied is the environment refusing
\* the removal of an existing file (PermissionError).
os_remove(path, denied) ==
    IF path \notin disk THEN "FileNotFoundError"
    ELSE IF denied THEN "PermissionError"
    ELSE "removed"

\* res in ['y', 'n']: the reply ends the confirmation loop (main.py 171, 197)
valid_reply(res) == res \in {"y", "n"}

\* mutant: the test of the reply is inverted
confirmed_inverted(res) == res # "y"

\* res == 'y' (main.py 175, 201)
confirmed(res) == res = "y"

\* mutant: the second member of a group is spared too
candidates_skip_two(duplicates) == SubSeq(duplicates, 3, Len(duplicates))

\* mutant: no member of a group is spared
candidates_all(duplicates) == duplicates

\* duplicates[1:] (main.py 166)
candidates(duplicates) == SubSeq(duplicates, 2, Len(duplicates))

RECURSIVE next_group(_)
\* the first group from index gi on whose inner loop has an element, 0 if none
next_group(gi) ==
    IF gi > Len(duplicate_files) THEN 0
    ELSE IF candidates(duplicate_files[gi]) # << >> THEN gi
    ELSE next_group(gi + 1)

\* print(msg.format(path))
Emit(msg, path) == stdout' = Append(stdout, <<msg, path>>)

\* the run ends normally: main.py 241 and exit status 0
Finish(out) ==
    /\ stdout' = Append(out, <<"Operation Completed", 0>>)
    /\ pc' = "done"
    /\ exit_status' = 0

\* an exception nobody catches ends the process with a traceback, status 1
Raise(exc) ==
    /\ pc' = "crashed"
    /\ error' = exc
    /\ exit_status' = 1

tree == << rootKind, kind, parent, content, mtime >>
flags == << recursive_flag, prompt_flag, remove_invalid_file_flag >>
lists == << file_entries, invalid_files, duplicate_files >>
ghost == << run, disk0, prevDeclined >>
\* ------------------------------------------------------------------ Init
\* Layout of the tree in the pipeline specification: entry 2 is a
\* subdirectory holding entry 3, every other entry is a file of the root.
LayoutKind   == [ n \in Nodes |-> IF n = 2 THEN "dir" ELSE "file" ]
LayoutParent == [ n \in Nodes |-> IF n = 3 THEN 2 ELSE 0 ]

InitRun ==
    /\ pc = "start"
    /\ file_entries = << >>
    /\ invalid_files = << >>
    /\ duplicate_files = << >>
    /\ g = 0 /\ j = 0 /\ k = 0
    /\ lastReply = ""
    /\ stdout = << >>
    /\ exit_status = -1
    /\ error = ""
    /\ run = 1
    /\ declined = FALSE
    /\ prevDeclined = FALSE
    /\ removedBy = [ n \in Nodes |-> "" ]

Init ==
    /\ rootKind \in {"dir", "file", "missing", "empty"}
    /\ kind = LayoutKind
    /\ parent = LayoutParent
    /\ content \in { c \in [Nodes -> Contents] :
                       \A n \in Nodes :
                          (rootKind # "dir" \/ LayoutKind[n] # "file") => c[n] = << >> }
    /\ mtime \in { m \in [Nodes -> Mtimes] :
                       \A n \in Nodes :
                          (rootKind # "dir" \/ LayoutKind[n] # "file") => m[n] = 1 }
    /\ disk = IF rootKind = "dir" THEN Nodes ELSE {}
    /\ disk0 = disk
    /\ recursive_flag \in BOOLEAN
    /\ prompt_flag \in BOOLEAN
    /\ remove_invalid_file_flag \in BOOLEAN
    /\ InitRun

\* --------------------------------------------------------------- __main__
\* main.py 219-220
Validate ==
    /\ pc = "start"
    /\ LET msg == valid_arguments(rootKind)
       IN  IF msg = "ok"
             THEN /\ pc' = "get_files"
                  /\ UNCHANGED << stdout, exit_status >>
             ELSE /\ Emit(msg, 0)
                  /\ pc' = "exited"
                  /\ exit_status' = 1
    /\ UNCHANGED << tree, disk, flags, lists, g, j, k, lastReply, error, ghost,
                    declined, removedBy >>

\* main.py 223
GetFiles ==
    /\ pc = "get_files"
    /\ file_entries' = get_files(0, recursive_flag)
    /\ pc' = "get_duplicates"
    /\ UNCHANGED << tree, disk, flags, invalid_files, duplicate_files, g, j, k,
                    lastReply, stdout, exit_status, error, ghost, declined, removedBy >>

\* main.py 224
GetDuplicates ==
    /\ pc = "get_duplicates"
    /\ LET r == get_duplicates(file_entries)
       IN  /\ file_entries' = r.sorted
           /\ invalid_files' = r.invalid
           /\ duplicate_files' = r.duplicates
    /\ pc' = "main_dup"
    /\ UNCHANGED << tree, disk, flags, g, j, k, lastReply, stdout, exit_status,
                    error, ghost, declined, removedBy >>

\* main.py 227-231: enter remove_duplicates_files or report that there is none
MainDup ==
    /\ pc = "main_dup"
    /\ IF duplicate_files # << >>
         THEN /\ Emit("REMOVING_DUPLICATE_FILES_MSG", 0)
              /\ LET ng == next_group(1)
                 IN  IF ng = 0 THEN pc' = "main_inv" /\ g' = 0 /\ j' = 0
                     ELSE pc' = "dup" /\ g' = ng /\ j' = 1
         ELSE /\ Emit("NO_DUPLICATES_MSG", 0)
              /\ pc' = "main_inv"
              /\ UNCHANGED << g, j >>
    /\ UNCHANGED << tree, disk, flags, lists, k, lastReply, exit_status, error,
                    ghost, declined, removedBy >>

\* ------------------------------------------------- remove_duplicates_files
\* the candidate the loops of remove_duplicates_files stand at
dup_file_path == candidates(duplicate_files[g])[j]

\* the loops move on: next candidate, next group, or back to __main__
DupAdvance ==
    IF j < Len(candidates(duplicate_files[g]))
      THEN pc' = "dup" /\ g' = g /\ j' = j + 1
      ELSE LET ng == next_group(g + 1)
           IN  IF ng = 0 THEN pc' = "main_inv" /\ g' = 0 /\ j' = 0
               ELSE pc' = "dup" /\ g' = ng /\ j' = 1

\* os.remove(file_path); print(SUCCESSFULLY_REMOVED_MSG) (main.py 176-177, 182-183)
DupRemove(denied) ==
    LET outcome == os_remove(dup_file_path, denied)
    IN  IF outcome = "removed"
          THEN /\ disk' = disk \ {dup_file_path}
               /\ removedBy' = [removedBy EXCEPT ![dup_file_path] = "dup"]
               /\ Emit("SUCCESSFULLY_REMOVED_MSG", dup_file_path)
               /\ DupAdvance
               /\ UNCHANGED << exit_status, error >>
          ELSE /\ Raise(outcome)
               /\ UNCHANGED << disk, removedBy, stdout, g, j >>

\* main.py 181-183: no prompt
DupDelete ==
    /\ pc = "dup"
    /\ ~prompt_flag
    /\ \E denied \in BOOLEAN : DupRemove(denied)
    /\ UNCHANGED << tree, flags, lists, k, lastReply, ghost, declined >>

\* main.py 168-179: one reply read by input()
DupPrompt ==
    /\ pc = "dup"
    /\ prompt_flag
    /\ \E res \in Replies :
         /\ lastReply' = res
         /\ IF valid_reply(res) /\ confirmed(res)
              THEN /\ \E denied \in BOOLEAN : DupRemove(denied)
                   /\ UNCHANGED declined
            ELSE IF valid_reply(res)
              THEN /\ Emit("CANCELLED_BY_USER_MSG", dup_file_path)
                   /\ DupAdvance
                   /\ declined' = TRUE
                   /\ UNCHANGED << disk, removedBy, exit_status, error >>
            ELSE UNCHANGED << disk, removedBy, stdout, pc, g, j, exit_status,
                              error, declined >>
    /\ UNCHANGED << tree, flags, lists, k, ghost >>

\* the lines main.py 238-239 print: the header, then every invalid path
RECURSIVE listing(_, _)
listing(out, paths) ==
    IF paths = << >> THEN out
    ELSE listing(Append(out, <<"listed", paths[1]>>), SubSeq(paths, 2, Len(paths)))

\* mutant: the invalid files are removed whether or not the flag is set
invalid_pass_always == TRUE

\* main.py 234: is remove_invalid_files called at all
invalid_pass_requested == remove_invalid_file_flag

\* main.py 234-241: enter remove_invalid_files, or list the invalid files
MainInv ==
    /\ pc = "main_inv"
    /\ IF invalid_pass_requested
         THEN LET out == Append(stdout, <<"REMOVING_INVALID_FILES_MSG", 0>>)
              IN  IF invalid_files = << >>
                    THEN Finish(out) /\ k' = 0
                    ELSE /\ stdout' = out
                         /\ pc' = "inv"
                         /\ k' = 1
                         /\ UNCHANGED exit_status
         ELSE IF invalid_files # << >>
           THEN /\ Finish(listing(Append(stdout, <<"INVALID_FILES_DETECTED_MSG", 0>>),
                                  invalid_files))
                /\ k' = 0
           ELSE Finish(stdout) /\ k' = 0
    /\ UNCHANGED << tree, disk, flags, lists, g, j, lastReply, error, ghost,
                    declined, removedBy >>

\* --------------------------------------------------- remove_invalid_files
inv_file_path == invalid_files[k]

\* os.remove(file_path); print(SUCCESSFULLY_REMOVED_MSG) (main.py 202-203, 208-209);
\* after the last path the function returns and main.py 241 ends the run
InvRemove(denied) ==
    LET outcome == os_remove(inv_file_path, denied)
        out     == Append(stdout, <<"SUCCESSFULLY_REMOVED_MSG", inv_file_path>>)
    IN  IF outcome = "removed"
          THEN /\ disk' = disk \ {inv_file_path}
               /\ removedBy' = [removedBy EXCEPT ![inv_file_path] = "inv"]
               /\ IF k < Len(invalid_files)
                    THEN /\ stdout' = out
                         /\ k' = k + 1
                         /\ UNCHANGED << pc, exit_status >>
                    ELSE Finish(out) /\ k' = 0
               /\ UNCHANGED error
          ELSE /\ Raise(outcome)
               /\ UNCHANGED << disk, removedBy, stdout, k >>

\* main.py 207-209: no prompt
InvDelete ==
    /\ pc = "inv"
    /\ ~prompt_flag
    /\ \E denied \in BOOLEAN : InvRemove(denied)
    /\ UNCHANGED << tree, flags, lists, g, j, lastReply, ghost, declined >>

\* main.py 194-205: one reply read by input()
InvPrompt ==
    /\ pc = "inv"
    /\ prompt_flag
    /\ \E res \in Replies :
         /\ lastReply' = res
         /\ IF valid_reply(res) /\ confirmed(res)
              THEN /\ \E denied \in BOOLEAN : InvRemove(denied)
                   /\ UNCHANGED declined
            ELSE IF valid_reply(res)
              THEN /\ LET out == Append(stdout, <<"CANCELLED_BY_USER_MSG", inv_file_path>>)
                      IN  IF k < Len(invalid_files)
                            THEN /\ stdout' = out
                                 /\ k' = k + 1
                                 /\ UNCHANGED << pc, exit_status >>
                            ELSE Finish(out) /\ k' = 0
                   /\ declined' = TRUE
                   /\ UNCHANGED << disk, removedBy, error >>
            ELSE UNCHANGED << disk, removedBy, stdout, pc, k, exit_status,
                              error, declined >>
    /\ UNCHANGED << tree, flags, lists, g, j, ghost >>

\* ------------------------------------------------------------ second run
\* the user starts the program again, with the same arguments, right after a
\* run that ended normally
Rerun ==
    /\ pc = "done"
    /\ run = 1
    /\ run' = 2
    /\ pc' = "start"
    /\ file_entries' = << >>
    /\ invalid_files' = << >>
    /\ duplicate_files' = << >>
    /\ g' = 0 /\ j' = 0 /\ k' = 0
    /\ lastReply' = ""
    /\ stdout' = << >>
    /\ exit_status' = -1
    /\ disk0' = disk
    /\ prevDeclined' = declined
    /\ declined' = FALSE
    /\ UNCHANGED << tree, disk, flags, error, removedBy >>

Next ==
    \/ Validate
    \/ GetFiles
    \/ GetDuplicates
    \/ MainDup
    \/ DupDelete
    \/ DupPrompt
    \/ MainInv
    \/ InvDelete
    \/ InvPrompt
    \/ Rerun

Spec == Init /\ [][Next]_vars

\* ------------------------------------------------- get_files on any tree
\* Specification of get_files alone: the tree is any tree of MaxNodes
\* entries (files, directories, special files) and the flag any value.
InitWalk ==
    /\ rootKind = "dir"
    /\ kind \in [Nodes -> Kinds]
    /\ parent \in { f \in [Nodes -> 0..MaxNodes] :
                      \A n \in Nodes : f[n] < n /\ (f[n] = 0 \/ kind[f[n]] = "dir") }
    /\ content = [ n \in Nodes |-> << >> ]
    /\ mtime = [ n \in Nodes |-> 1 ]
    /\ disk = Nodes
    /\ disk0 = disk
    /\ recursive_flag \in BOOLEAN
    /\ prompt_flag = FALSE
    /\ remove_invalid_file_flag = FALSE
    /\ InitRun

NextWalk ==
    \/ Validate
    \/ GetFiles

SpecWalk == InitWalk /\ [][NextWalk]_vars

\* ================================================================ claims
Groups      == DOMAIN duplicate_files
Group(gi)   == duplicate_files[gi]
Members(gi) == Range(Group(gi))
Scanned     == Range(file_entries)
Classified  == pc \in {"main_dup", "dup", "main_inv", "inv", "done", "crashed"}
Empty(n)    == kind[n] = "file" /\ content[n] = << >>

\* C1: when remove_duplicates_files has returned in a run without prompt,
\* every duplicate group has at least two members, its first member is on
\* disk and has the smallest modification time of the group, and every other
\* member is gone.
C1_OneSurvivorPerGroup ==
    (pc = "main_inv" /\ ~prompt_flag) =>
        \A gi \in Groups :
            /\ Len(Group(gi)) >= 2
            /\ Group(gi)[1] \in disk
            /\ \A i \in 2..Len(Group(gi)) : Group(gi)[i] \notin disk
            /\ Members(gi) \cap disk = {Group(gi)[1]}
            /\ \A n \in Members(gi) : mtime[Group(gi)[1]] <= mtime[n]

\* C1 witness: a group of three was reduced to its first member, which is not
\* the first of the three in scan order
C1_Witness ==
    /\ pc = "main_inv" /\ ~prompt_flag /\ run = 1
    /\ \E gi \in Groups :
         /\ Len(Group(gi)) = 3
         /\ Members(gi) \cap disk = {Group(gi)[1]}
         /\ \E n \in Members(gi) : n < Group(gi)[1]

\* C2: right after get_duplicates, two scanned files are in a common group
\* exactly when their contents are equal and that content belongs to at least
\* two scanned files; a file is in at most one group, at most once; every
\* group is in ascending order of modification time.
C2_GroupsAreContentClasses ==
    pc = "main_dup" =>
        /\ \A a, b \in Scanned :
              (\E gi \in Groups : a \in Members(gi) /\ b \in Members(gi))
              <=> ( /\ content[a] = content[b]
                    /\ \E c, d \in Scanned : c # d /\ content[c] = content[a]
                                                   /\ content[d] = content[a] )
        /\ \A gi \in Groups :
              /\ Members(gi) \subseteq Scanned
              /\ Cardinality(Members(gi)) = Len(Group(gi))
              /\ \A gk \in Groups : gi # gk => Members(gi) \cap Members(gk) = {}
              /\ \A x, y \in DOMAIN Group(gi) :
                    x < y => mtime[Group(gi)[x]] <= mtime[Group(gi)[y]]

\* C2 witness: a group whose older member was scanned after the newer one,
\* beside a scanned file of another content that is in no group
C2_Witness ==
    /\ pc = "main_dup"
    /\ \E gi \in Groups :
         /\ Group(gi)[1] > Group(gi)[2]
         /\ mtime[Group(gi)[1]] < mtime[Group(gi)[2]]
    /\ \E n \in Scanned : \A gi \in Groups : n \notin Members(gi)

\* C3 (as claimed): without --invalid-files every zero-byte file that was on
\* disk when the run started is still on disk.
C3_Original ==
    ~remove_invalid_file_flag =>
        \A n \in disk0 : Empty(n) => n \in disk

\* C3 (amended): without --invalid-files no file is removed by
\* remove_invalid_files; a zero-byte file that is gone was a member other than
\* the first of a duplicate group; at the end every invalid file was listed.
C3_Amended ==
    ~remove_invalid_file_flag =>
        /\ \A n \in Nodes : removedBy[n] # "inv"
        /\ pc # "inv"
        /\ \A n \in disk0 \ disk :
              Empty(n) => \E gi \in Groups :
                             \E i \in 2..Len(Group(gi)) : Group(gi)[i] = n
        /\ pc = "done" =>
              \A i \in DOMAIN invalid_files :
                  <<"listed", invalid_files[i]>> \in Range(stdout)

\* C3 witness: the run ended without --invalid-files, one zero-byte file was
\* removed as a duplicate and another is on disk and listed
C3_Witness ==
    /\ ~remove_invalid_file_flag /\ pc = "done" /\ run = 1
    /\ \E n \in Nodes : Empty(n) /\ removedBy[n] = "dup" /\ n \notin disk
    /\ \E n \in disk : Empty(n) /\ <<"listed", n>> \in Range(stdout)

\* C4 (as claimed): the first member of every duplicate group is on disk at
\* every point of the run, whatever the flags.
C4_Original ==
    \A gi \in Groups : Group(gi)[1] \in disk

\* C4 (amended): remove_duplicates_files never removes the first member of a
\* group; the first member is on disk unless it is a zero-byte file,
\* --invalid-files is set and remove_invalid_files removed it.
C4_Amended ==
    \A gi \in Groups :
        LET first == Group(gi)[1]
        IN  /\ removedBy[first] # "dup"
            /\ first \notin disk =>
                  /\ remove_invalid_file_flag
                  /\ Empty(first)
                  /\ removedBy[first] = "inv"

\* C4 witness: with --invalid-files set the run ended, a group of files that
\* are not empty kept its first member and lost the others, and an invalid
\* file was removed
C4_Witness ==
    /\ remove_invalid_file_flag /\ pc = "done" /\ run = 1
    /\ \E gi \in Groups :
         /\ ~Empty(Group(gi)[1])
         /\ Members(gi) \cap disk = {Group(gi)[1]}
    /\ \E n \in Nodes : removedBy[n] = "inv"

\* C5: when the argument is a directory and the environment refuses no
\* removal, the run is never ended by an unhandled exception.
C5_RunsToCompletion ==
    (rootKind = "dir" /\ error # "PermissionError") => pc # "crashed"

\* C6: in prompt mode a file leaves the disk only in a confirmation step whose
\* reply is 'y', and it is the path asked about; after 'y' that path is gone
\* unless the system refused the removal; 'n' leaves the disk as it is and
\* moves to the next path; any other reply changes neither the disk, the
\* position nor the output.  So a run answered 'n' throughout removes nothing.
C6_RemovedOnlyOnYes ==
    [][ prompt_flag =>
          LET asking   == pc \in {"dup", "inv"}
              path     == IF pc = "dup" THEN candidates(duplicate_files[g])[j]
                          ELSE invalid_files[k]
              position == << pc, g, j, k >>
          IN  /\ disk' # disk => asking /\ lastReply' = "y" /\ disk' = disk \ {path}
              /\ asking =>
                   /\ lastReply' \in Replies
                   /\ lastReply' = "y" =>
                         /\ path \notin disk' \/ error' = "PermissionError"
                         /\ disk' \in {disk, disk \ {path}}
                   /\ lastReply' = "n" =>
                         /\ disk' = disk
                         /\ position' # position
                         /\ pc' # "crashed"
                         /\ stdout' # stdout
                   /\ lastReply' = "x" =>
                         /\ disk' = disk
                         /\ position' = position
                         /\ stdout' = stdout
    ]_vars

\* C6 witness: a prompted run ended in which one candidate was removed and
\* another, declined, is still on disk
C6_Witness ==
    /\ prompt_flag /\ pc = "done" /\ run = 1 /\ declined
    /\ \E n \in Nodes : removedBy[n] = "dup"
    /\ \E n \in disk : <<"CANCELLED_BY_USER_MSG", n>> \in Range(stdout)

\* C7: in the run started right after a run that ended normally with
\* --invalid-files set and nothing declined, get_duplicates finds no duplicate
\* group and no invalid file, no two scanned files have the same content, no
\* scanned file is empty, and nothing is removed.
C7_SecondRunFindsNothing ==
    (run = 2 /\ remove_invalid_file_flag /\ ~prevDeclined) =>
        /\ disk = disk0
        /\ pc \notin {"dup", "inv", "crashed"}
        /\ Classified =>
             /\ duplicate_files = << >>
             /\ invalid_files = << >>
             /\ \A a, b \in Scanned : a # b => content[a] # content[b]
             /\ \A a \in Scanned : ~Empty(a)

\* C7 witness: the second run ended after a first run that removed a
\* duplicate and an invalid file
C7_Witness ==
    /\ run = 2 /\ pc = "done" /\ remove_invalid_file_flag /\ ~prevDeclined
    /\ \E n \in Nodes : removedBy[n] = "dup"
    /\ \E n \in Nodes : removedBy[n] = "inv"

\* the paths the deletion loops have not reached yet
Pending ==
    LET laterInGroup == IF g > 0
                          THEN { candidates(Group(g))[i] :
                                   i \in (j + 1)..Len(candidates(Group(g))) }
                          ELSE {}
        laterGroups  == IF g > 0
                          THEN UNION { Range(candidates(Group(gi))) :
                                         gi \in { x \in Groups : x > g } }
                          ELSE {}
        invalidLeft  == IF g > 0
                          THEN IF remove_invalid_file_flag
                                 THEN Range(invalid_files) ELSE {}
                          ELSE { invalid_files[i] : i \in (k + 1)..Len(invalid_files) }
    IN  laterInGroup \cup laterGroups \cup invalidLeft

\* C8: a removal that fails does not abort the batch: the run never ends on
\* an exception while candidates are still waiting to be processed.
C8_PerItemIsolation ==
    pc = "crashed" => Pending = {}

\* C9: an argument that is not a directory ends the run with status 1 before
\* anything is enumerated or removed, with the not-found message when the
\* path does not exist and the not-a-directory message when it is a file.
C9_PathValidation ==
    (rootKind \in {"missing", "file"} /\ pc # "start") =>
        /\ pc = "exited"
        /\ exit_status = 1
        /\ file_entries = << >> /\ disk = disk0
        /\ rootKind = "missing" => stdout = << <<"ERROR_PATH_NOT_FOUND_MSG", 0>> >>
        /\ rootKind = "file" => stdout = << <<"INVALID_DIRECTORY_MSG", 0>> >>

\* the entries from the root down to n
RECURSIVE PathOf(_)
PathOf(n) == IF n = 0 THEN << >> ELSE Append(PathOf(parent[n]), n)

\* a is met before b by a depth-first walk that lists every directory in
\* scandir order: where the two paths part, a's side is listed first
DepthFirstBefore(a, b) ==
    LET pa == PathOf(a)
        pb == PathOf(b)
    IN  \E i \in DOMAIN pa \cap DOMAIN pb :
           /\ \A x \in 1..(i - 1) : pa[x] = pb[x]
           /\ pa[i] < pb[i]

\* C10: get_files returns, each once, the regular files that are children of
\* the root when recursive is false and the regular files at any depth when
\* it is true, in depth-first order.
C10_GetFiles ==
    pc = "get_duplicates" =>
        /\ Scanned = { n \in Nodes : kind[n] = "file"
                                     /\ (recursive_flag \/ parent[n] = 0) }
        /\ Len(file_entries) = Cardinality(Scanned)
        /\ \A x, y \in DOMAIN file_entries :
              x < y => DepthFirstBefore(file_entries[x], file_entries[y])

\* C10 witness: a recursive walk returned a file two directories down, and a
\* file of a subdirectory ahead of a root file with a smaller number
C10_Witness ==
    /\ pc = "get_duplicates" /\ recursive_flag
    /\ \E n \in Scanned : parent[n] # 0 /\ parent[parent[n]] # 0
    /\ \E x, y \in DOMAIN file_entries :
          x < y /\ file_entries[x] > file_entries[y] /\ parent[file_entries[y]] = 0

====
